---- MODULE Spec2Model ----
(***************************************************************************)
(* Model of the CSV product import pipeline: the ImportJob record and its  *)
(* writers (upload API, Celery task, cancel API), the streaming batch      *)
(* engine (process_csv_stream / _process_micro_batch), the SKU key cache   *)
(* and the product store with its unique index on LOWER(sku).              *)
(*                                                                         *)
(* Input domain: a file is a header (sequence of raw column names) and a   *)
(* sequence of rows, each row holding one raw value per header column, as  *)
(* csv.DictReader yields them for rows that have no more fields than the   *)
(* header.                                                                 *)
(***************************************************************************)
EXTENDS Integers, Sequences, FiniteSets, TLC

\* ------------------------------------------------------------------ bounds
\* longest file (data rows) explored
MaxRows == 3
\* micro_batch_size handed to process_csv_stream (500 in tasks.py), scaled
MicroBatchSize == 2
\* cadence of the in-stream cancellation check (1000 in services.py), scaled
CheckEvery == 3
\* keys per follow-up id lookup (200 in services.py), scaled
LookupLimit == 1
\* cap of the persisted error list (100 in services.py / tasks.py), scaled
ErrCap == 2
\* number of injected store failures per behaviour
MaxFailures == 1
\* number of cancel requests per behaviour
MaxCancels == 1
\* number of writes by concurrent writers of the products table per behaviour
MaxExternal == 1
\* longest file explored from the start of the stream under cancel requests
MaxStreamRows == 4
\* longest file explored by the liveness specification
MaxLiveRows == 3

\* ------------------------------------------------------------- primitives
NoId == 0
Nil == "<None>"

Min(a, b) == IF a < b THEN a ELSE b

\* str.strip() on the raw values of the input domain
Strip(s) ==
  CASE s = " " -> ""
    [] s = " name" -> "name"
    [] OTHER -> s

\* str.lower() on the SKUs of the input domain
Lower(s) ==
  CASE s = "A1" -> "a1"
    [] s = "B2" -> "b2"
    [] OTHER -> s

\* str.title() on the (stripped) header names of the input domain
Title(s) ==
  CASE s = "sku" -> "Sku"
    [] s = "SKU" -> "Sku"
    [] s = "name" -> "Name"
    [] s = "description" -> "Description"
    [] OTHER -> s

\* (x or '') for a value that is None when the row is short
OrEmpty(v) == IF v = Nil THEN "" ELSE v

\* variant: the cap keeps the oldest entries
LastErrors_Oldest(errs) ==
  IF Len(errs) > ErrCap THEN SubSeq(errs, 1, ErrCap) ELSE errs

\* errors[-100:] if len(errors) > 100 else errors
LastErrors(errs) ==
  IF Len(errs) > ErrCap THEN SubSeq(errs, Len(errs) - ErrCap + 1, Len(errs)) ELSE errs

\* ------------------------------------------------------------ CSV reading
\* normalize_csv_record: keys stripped and title-cased, values untouched
normalize_csv_record(header, row) ==
  [k \in {Title(Strip(header[i])) : i \in 1..Len(header)} |->
     row[CHOOSE i \in 1..Len(header) :
           /\ Title(Strip(header[i])) = k
           /\ \A j \in 1..Len(header) : Title(Strip(header[j])) = k => j <= i]]

\* record.get(key): None when the column is absent
RecGet(rec, k) == IF k \in DOMAIN rec THEN rec[k] ELSE Nil

\* variant: only the Sku column is required
validate_csv_headers_SkuOnly(header) ==
  /\ Len(header) > 0
  /\ "Sku" \in {Title(Strip(header[i])) : i \in 1..Len(header)}

\* validate_csv_headers: TRUE when the header is accepted
validate_csv_headers(header) ==
  /\ Len(header) > 0
  /\ {"Sku", "Name", "Description"} \subseteq {Title(Strip(header[i])) : i \in 1..Len(header)}

\* validate_csv_record: the error message, or Nil when the record is valid
validate_csv_record(rec) ==
  LET sku == Strip(OrEmpty(RecGet(rec, "Sku")))
      name == Strip(OrEmpty(RecGet(rec, "Name")))
  IN IF sku = "" THEN "SKU is required"
     ELSE IF name = "" THEN "Name is required"
     ELSE Nil

\* ---------------------------------------------------------- product store
\* a product row: [id, sku, name, description, active]
Prod(id, sku, name, description, active) ==
  [id |-> id, sku |-> sku, name |-> name, description |-> description, active |-> active]

\* get_product_by_sku: sku__iexact lookup, the set of matches
get_product_by_sku(store, sku) == {p \in store : Lower(p.sku) = Lower(sku)}

\* variant: no unique index, every insert is accepted
UniqueOk_NoIndex(store, sku) == TRUE

\* the unique index on LOWER(sku): may a row with this sku be inserted?
UniqueOk(store, sku) == get_product_by_sku(store, sku) = {}

\* variant: the cache keyed by the stored sku as written, not lower-cased
preload_existing_skus_CaseSensitive(store) ==
  [k \in {p.sku : p \in store} |-> CHOOSE p \in store : p.sku = k]

\* preload_existing_skus: lower-cased sku -> snapshot of the stored row
preload_existing_skus(store) ==
  [k \in {Lower(p.sku) : p \in store} |->
     CHOOSE p \in store : Lower(p.sku) = k /\ \A q \in store : Lower(q.sku) = k => p.id <= q.id]

\* existing_skus_dict[k] = e
CachePut(cache, k, e) ==
  [x \in DOMAIN cache \cup {k} |-> IF x = k THEN e ELSE cache[x]]

\* variant: the update branch also stores the SKU as the caller spelled it
create_product_WritesSku(store, nextId, sku, name, description, active) ==
  LET existing == get_product_by_sku(store, sku) IN
  IF existing # {}
    THEN [store |-> {IF p \in existing
                       THEN [p EXCEPT !.sku = sku, !.name = name,
                                      !.description = IF description # Nil THEN description ELSE @,
                                      !.active = active]
                       ELSE p : p \in store},
          nextId |-> nextId, created |-> FALSE]
    ELSE [store |-> store \cup {Prod(nextId, sku, name,
                                     IF description = Nil THEN "" ELSE description, active)},
          nextId |-> nextId + 1, created |-> TRUE]

\* create_product (products/services.py): update-by-sku or create; the
\* result carries the new store and the next free id
create_product(store, nextId, sku, name, description, active) ==
  LET existing == get_product_by_sku(store, sku) IN
  IF existing # {}
    THEN [store |-> {IF p \in existing
                       THEN [p EXCEPT !.name = name,
                                      !.description = IF description # Nil THEN description ELSE @,
                                      !.active = active]
                       ELSE p : p \in store},
          nextId |-> nextId, created |-> FALSE]
    ELSE [store |-> store \cup {Prod(nextId, sku, name,
                                     IF description = Nil THEN "" ELSE description, active)},
          nextId |-> nextId + 1, created |-> TRUE]

\* ------------------------------------------------------ batch upsert engine
\* variant: every row of a cached SKU counts as changed
Differs_Always(existing, pd) == TRUE

\* the diff of a row against its cached snapshot: name, description, active
Differs(existing, pd) ==
  \/ existing.name # pd.name
  \/ existing.description # pd.description
  \/ existing.active # pd.active

\* variant: every row of an uncached SKU is queued for creation
NotInCreateBatch_Always(sku_lower, inCre) == TRUE

\* the guard sku_lower not in skus_in_create_batch
NotInCreateBatch(sku_lower, inCre) == sku_lower \notin inCre

\* the partition loop of _process_micro_batch over micro_batch[i..]:
\* st = [cache, upd (products_to_update), cre (products_to_create),
\*       inCre (skus_in_create_batch)]
RECURSIVE Partition(_, _, _)
Partition(batch, i, st) ==
  IF i > Len(batch) THEN st
  ELSE
    LET pd == batch[i]
        sku_lower == Lower(pd.sku)
        next ==
          IF sku_lower \in DOMAIN st.cache
            THEN LET existing == st.cache[sku_lower] IN
                 IF existing.id # NoId
                   THEN IF Differs(existing, pd)
                          THEN [st EXCEPT
                                  !.upd = Append(@, Prod(existing.id, existing.sku, pd.name,
                                                         pd.description, pd.active)),
                                  !.cache = CachePut(@, sku_lower,
                                                     Prod(existing.id, existing.sku, pd.name,
                                                          pd.description, pd.active))]
                          ELSE st
                   ELSE IF NotInCreateBatch(sku_lower, st.inCre)
                          THEN [st EXCEPT
                                  !.cre = Append(@, Prod(NoId, pd.sku, pd.name,
                                                         pd.description, pd.active)),
                                  !.inCre = @ \cup {sku_lower}]
                          ELSE st
            ELSE IF NotInCreateBatch(sku_lower, st.inCre)
                   THEN [st EXCEPT
                           !.cre = Append(@, Prod(NoId, pd.sku, pd.name,
                                                  pd.description, pd.active)),
                           !.inCre = @ \cup {sku_lower},
                           !.cache = CachePut(@, sku_lower,
                                              Prod(NoId, pd.sku, pd.name,
                                                   pd.description, pd.active))]
                   ELSE st
    IN Partition(batch, i + 1, next)

\* Product.objects.bulk_update(objs, ['name','description','active']): rows
\* are matched by id; of several objects with one id only the first is applied
bulk_update(store, upd) ==
  {IF \E i \in 1..Len(upd) : upd[i].id = p.id
     THEN LET i == CHOOSE i \in 1..Len(upd) :
                     upd[i].id = p.id /\ \A j \in 1..(i-1) : upd[j].id # p.id
          IN [p EXCEPT !.name = upd[i].name,
                       !.description = upd[i].description,
                       !.active = upd[i].active]
     ELSE p : p \in store}

\* does bulk_create(cre, ignore_conflicts=False) violate the unique index?
BulkCreateConflict(store, cre) ==
  \/ \E i \in 1..Len(cre) : ~UniqueOk(store, cre[i].sku)
  \/ \E i, j \in 1..Len(cre) : i < j /\ Lower(cre[i].sku) = Lower(cre[j].sku)

\* the rows bulk_create inserts, ids assigned in list order
bulk_create(store, cre, nextId) ==
  store \cup {[cre[i] EXCEPT !.id = nextId + i - 1] : i \in 1..Len(cre)}

\* id backfill after bulk_create: ids taken from the returned objects when
\* the backend returns them, else from one lookup of the first LookupLimit skus
Backfill(cache, store, cre, nextId, idsInline) ==
  IF idsInline
    THEN [k \in DOMAIN cache |->
            IF \E i \in 1..Len(cre) : Lower(cre[i].sku) = k
              THEN [cache[k] EXCEPT !.id =
                      nextId - 1 + CHOOSE i \in 1..Len(cre) :
                        Lower(cre[i].sku) = k /\ \A j \in (i+1)..Len(cre) : Lower(cre[j].sku) # k]
              ELSE cache[k]]
    ELSE LET asked == {cre[i].sku : i \in 1..Min(Len(cre), LookupLimit)}
             fetched == {p \in store : \E s \in asked : Lower(p.sku) = Lower(s)}
             created_skus_lower == {Lower(cre[i].sku) : i \in 1..Len(cre)}
         IN [k \in DOMAIN cache |->
               IF k \in created_skus_lower /\ \E p \in fetched : Lower(p.sku) = k
                 THEN [cache[k] EXCEPT !.id = (CHOOSE p \in fetched : Lower(p.sku) = k).id]
                 ELSE cache[k]]

\* variant: the error entry of a failed record carries no SKU
FallbackError_NoSku(pd) ==
  [row |-> pd.row_number, sku |-> "", error |-> "write failed"]

\* the error entry the fallback loop appends for a record whose write raised
FallbackError(pd) ==
  [row |-> pd.row_number, sku |-> pd.sku, error |-> "write failed"]

\* the fallback loop over micro_batch[i..]: one create_product per record;
\* fb[i] is the outcome of record i's call: "ok", "db" (raises before the
\* write) or "hook" (raises after the write, in the webhook trigger)
\* st = [store, nextId, processed, errors, calls]
RECURSIVE Fallback(_, _, _, _)
Fallback(batch, i, fb, st) ==
  IF i > Len(batch) THEN st
  ELSE
    LET pd == batch[i]
        r == create_product(st.store, st.nextId, pd.sku, pd.name,
                            IF pd.description = "" THEN Nil ELSE pd.description, pd.active)
        err == FallbackError(pd)
        next ==
          CASE fb[i] = "ok" ->
                 [st EXCEPT !.store = r.store, !.nextId = r.nextId,
                            !.processed = @ + 1, !.calls = Append(@, pd.row_number)]
            [] fb[i] = "hook" ->
                 [st EXCEPT !.store = r.store, !.nextId = r.nextId,
                            !.errors = Append(@, err), !.calls = Append(@, pd.row_number)]
            [] OTHER ->
                 [st EXCEPT !.errors = Append(@, err), !.calls = Append(@, pd.row_number)]
    IN Fallback(batch, i + 1, fb, next)

\* where the atomic block of _process_micro_batch can raise
FailPoints == {"none", "bulk_update", "bulk_create", "lookup", "commit"}

\* what _process_micro_batch returns and leaves behind after its fallback loop
FallbackResult(fbr, cacheErr, upd, cre, hit) ==
  [processed |-> fbr.processed, errors |-> fbr.errors, cache |-> cacheErr,
   store |-> fbr.store, nextId |-> fbr.nextId, upd |-> upd, cre |-> cre,
   calls |-> fbr.calls, raised |-> TRUE, hit |-> hit]

\* _process_micro_batch after the partition loop (part) and bulk_update
\* (store1): bulk_create, id backfill, commit, and the fallback when the
\* atomic block raised
BatchOutcome(batch, cache, store, nextId, idsInline, fm, fb, part, store1) ==
  LET updRaises == part.upd # <<>> /\ fm = "bulk_update"
      creRaises == part.cre # <<>> /\ (fm = "bulk_create" \/ BulkCreateConflict(store1, part.cre))
      store2 == IF part.cre # <<>> THEN bulk_create(store1, part.cre, nextId) ELSE store1
      nextId2 == nextId + Len(part.cre)
      lookupRaises == part.cre # <<>> /\ ~idsInline /\ fm = "lookup"
      cache2 == IF part.cre # <<>>
                  THEN Backfill(part.cache, store2, part.cre, nextId, idsInline)
                  ELSE part.cache
      raised == updRaises \/ creRaises \/ lookupRaises \/ fm = "commit"
      \* the injected failure point is one this batch reaches
      hit == CASE fm = "none" -> TRUE
               [] fm = "bulk_update" -> part.upd # <<>>
               [] fm = "bulk_create" -> ~updRaises /\ part.cre # <<>>
                                          /\ ~BulkCreateConflict(store1, part.cre)
               [] fm = "lookup" -> ~creRaises /\ lookupRaises
               [] OTHER -> ~(updRaises \/ creRaises \/ lookupRaises)
      \* the cache as the exception leaves it: the partition loop has run,
      \* the backfill only if bulk_create and the lookup returned
      cacheErr == IF updRaises \/ creRaises \/ lookupRaises THEN part.cache ELSE cache2
      \* processed = len(micro_batch) is the last statement of the block
      processed0 == IF updRaises \/ creRaises \/ lookupRaises THEN 0 ELSE Len(batch)
  IN IF ~raised
       THEN [processed |-> Len(batch), errors |-> <<>>, cache |-> cache2, store |-> store2,
             nextId |-> nextId2, upd |-> part.upd, cre |-> part.cre, calls |-> <<>>,
             raised |-> FALSE, hit |-> hit]
       ELSE FallbackResult(Fallback(batch, 1, fb,
                                    [store |-> store, nextId |-> nextId,
                                     processed |-> processed0,
                                     errors |-> <<>>, calls |-> <<>>]),
                           cacheErr, part.upd, IF updRaises THEN <<>> ELSE part.cre, hit)

\* _process_micro_batch after the partition loop: bulk_update of the update list
BatchWrites(batch, cache, store, nextId, idsInline, fm, fb, part) ==
  BatchOutcome(batch, cache, store, nextId, idsInline, fm, fb, part,
               bulk_update(store, part.upd))

\* _process_micro_batch: fm is the injected failure point of the atomic
\* block, fb the outcomes of the fallback calls.  The result carries the
\* return value (processed, errors), the cache and store it leaves, and the
\* write attempts it issued (upd, cre, calls).
process_micro_batch(batch, cache, store, nextId, idsInline, fm, fb) ==
  BatchWrites(batch, cache, store, nextId, idsInline, fm, fb,
              Partition(batch, 1, [cache |-> cache, upd |-> <<>>, cre |-> <<>>, inCre |-> {}]))

\* ------------------------------------------------------------ ImportJob
Terminal == {"completed", "failed", "cancelled"}

\* ImportJob.objects.create(file_name=...): the model's field defaults
NewJob ==
  [status |-> "pending", phase |-> "uploading", progress |-> 0,
   total_records |-> 0, processed_records |-> 0, errors |-> <<>>,
   completed_at |-> FALSE, celery_task_id |-> FALSE, s3_key |-> FALSE, file_size |-> 0]

Has(args, f) == f \in DOMAIN args

\* the progress update_import_job_status computes from the phase when no
\* progress argument is given; -1 stands for None
PhaseProgress(args) ==
  IF Has(args, "progress") THEN args.progress
  ELSE IF ~Has(args, "phase") THEN -1
  ELSE IF args.phase = "uploading" THEN 5
  ELSE IF args.phase = "parsing" THEN 15
  ELSE IF /\ args.phase = "processing"
          /\ Has(args, "processed_records")
          /\ Has(args, "total_records")
          /\ args.total_records # 0
         THEN Min(20 + (args.processed_records * 80) \div args.total_records, 99)
  ELSE IF args.phase = "completed" THEN 100
  ELSE -1

\* variant: only the fields passed are assigned, completed_at is not derived
UisAssign_ArgsOnly(j, args) ==
  [f \in DOMAIN j |-> IF Has(args, f) THEN args[f] ELSE j[f]]

\* the in-memory job object of update_import_job_status after its assignments
UisAssign(j, args) ==
  [f \in DOMAIN j |->
     IF f = "progress" THEN (IF PhaseProgress(args) # -1 THEN PhaseProgress(args) ELSE j.progress)
     ELSE IF f = "completed_at"
       THEN (IF Has(args, "status") /\ args.status \in Terminal THEN TRUE ELSE j.completed_at)
     ELSE IF Has(args, f) THEN args[f]
     ELSE j[f]]

\* fields_to_update: the caller's update_fields when given, else the fields set
UisFields(args, update_fields) ==
  IF update_fields # {} THEN update_fields
  ELSE (DOMAIN args)
         \cup (IF Has(args, "status") /\ args.status \in Terminal THEN {"completed_at"} ELSE {})
         \cup (IF PhaseProgress(args) # -1 THEN {"progress"} ELSE {})
         \cup {"last_updated_at"}

\* variant: job.save() without update_fields writes every field of the object
SaveFields_AllFields(j, obj, fields) == obj

\* job.save(update_fields=fields) of the in-memory object obj over the row j
SaveFields(j, obj, fields) ==
  [f \in DOMAIN j |-> IF f \in fields THEN obj[f] ELSE j[f]]

NoPend == [fields |-> {}]

\* variant: no early return for a cancelled job
UisBegin_NoCancelGuard(j, args, update_fields, next) ==
  [obj |-> UisAssign(j, args), fields |-> UisFields(args, update_fields), next |-> next]

\* update_import_job_status up to its save: the job is read, a cancelled job
\* is returned untouched, else the object and the field list are prepared
UisBegin(j, args, update_fields, next) ==
  IF j.status = "cancelled" THEN NoPend
  ELSE [obj |-> UisAssign(j, args), fields |-> UisFields(args, update_fields), next |-> next]

\* int((total_processed / total_records) * 80) + 20, capped at 99
StreamProgress(total_processed, total_records) ==
  Min(IF total_records > 0 THEN (total_processed * 80) \div total_records + 20 ELSE 20, 99)

\* ------------------------------------------------------------------ state
VARIABLES
  header,           \* the file's header row (raw column names)
  rows,             \* the file's data rows, one raw value per header column
  idsInline,        \* does the backend's bulk_create return the new ids?
  store,            \* the products table
  nextId,           \* next id the products table assigns
  job,              \* the persisted ImportJob row
  apc,              \* CSVUploadAPIView.post: position
  wpc,              \* process_csv_import_task: position
  cpc,              \* ImportJobCancelAPIView.post: position
  pend,             \* per caller: the job object update_import_job_status is about to save
  existing_skus_dict, \* the task's key cache
  total,            \* the task's local total_records
  records_seen,     \* process_csv_stream: records consumed from the generator
  micro_batch,      \* process_csv_stream: the accumulator
  total_processed,  \* process_csv_stream: total_processed
  total_errors,     \* process_csv_stream: total_errors
  all_errors,       \* process_csv_stream: all_errors
  revoked,          \* app.control.revoke(task_id, terminate=True) was sent
  cancel_task_id,   \* the cancel view's job.celery_task_id, as read
  failures,         \* injected failures so far
  cancels,          \* cancel requests so far
  run,              \* 1 for the first import of the file, 2 for the re-run
  ext,              \* a concurrent writer of the products table (API request, other job)
  hist              \* history: what the pipeline has written so far

fileVars == <<header, rows, idsInline>>
storeVars == <<store, nextId>>
streamVars == <<records_seen, micro_batch, total_processed, total_errors, all_errors>>
workerVars == <<wpc, existing_skus_dict, total, streamVars>>
cancelVars == <<cpc, revoked, cancel_task_id, cancels>>
vars == <<fileVars, storeVars, job, apc, workerVars, cancelVars, pend, failures, run, ext, hist>>

\* ------------------------------------------------------------ input domain
SeqsUpTo(S, n) == UNION {[1..k -> S] : k \in 0..n}

GoodHeader == <<"SKU", " name", "description">>
BadHeaders == {<<"sku", "name">>, <<>>}

\* data rows <<sku, name, description>>
RowValues ==
  {<<"A1", "Widget", "x">>, <<"a1", "Widget Pro", "y">>, <<"", "NoKey", "z">>,
   <<"B2", " ", "">>, <<"B2", "Gadget", "">>}

InitialStores ==
  {{}, {Prod(1, "A1", "Widget", "x", TRUE), Prod(2, "B2", "Gadget", "old", FALSE)}}

\* the id the products table assigns next, above the ids of InitialStores
FirstId == 3

\* no micro-batch has been processed yet
NoBatch ==
  [batch |-> <<>>, cache |-> <<>>, store |-> {}, upd |-> <<>>, cre |-> <<>>,
   calls |-> <<>>, errors |-> <<>>, fb |-> <<>>, raised |-> FALSE, processed |-> 0]

NoHist ==
  [total_writes |-> 0,     \* saves of the job row that include total_records
   batched |-> {},         \* row numbers handed to _process_micro_batch
   updates |-> 0,          \* objects passed to bulk_update
   creates |-> 0,          \* objects passed to bulk_create
   calls |-> 0,            \* fallback create_product calls
   store0 |-> {},          \* the store when this run's job was created
   store1 |-> {},          \* the store when the first run ended
   cancel_seen |-> FALSE,  \* the in-stream check has read status cancelled
   records_after |-> 0,    \* records consumed while the persisted status was cancelled
   batches_after |-> 0,    \* micro-batches processed while the persisted status was cancelled
   committed |-> 0,        \* records of micro-batches whose writes reached the store
   suppressed |-> 0,       \* the task's status updates that returned on a cancelled job
   task_raised |-> FALSE,  \* an exception outside the batch engine reached the task
   multi_write |-> FALSE,  \* one batch listed two writes for one case-folded SKU
   applied |-> 0,          \* records written by a committed batch or by a fallback call that returned
   chk_cancel |-> FALSE,   \* a checkpoint of the task has read status cancelled
   rejected |-> FALSE,     \* a cancel request has read a terminal status
   last |-> NoBatch]       \* the last _process_micro_batch call: its inputs and what it issued

\* the files and stores the concurrent specification starts from
SmallRowValues == {<<"A1", "Widget", "x">>, <<"", "NoKey", "z">>}
SmallStores == {{}}

\* the file, the backend and the store a behaviour starts from
InputInit(rowValues, stores, inline) ==
  /\ header \in {GoodHeader} \cup BadHeaders
  /\ rows \in SeqsUpTo(rowValues, IF header = GoodHeader THEN MaxRows ELSE 1)
  /\ idsInline \in inline
  /\ store \in stores
  /\ nextId = FirstId
  /\ failures = 0
  /\ cancels = 0
  /\ run = 1
  /\ hist = [NoHist EXCEPT !.store0 = store]

\* no concurrent writer is active; n counts their writes, rejected records
\* that the unique index refused one of them
NoExt == [pc |-> "idle", sku |-> "", found |-> FALSE, n |-> 0, rejected |-> FALSE]

\* no task, no cancel request, nothing read or accumulated yet
IdleInit ==
  /\ cpc = "idle"
  /\ pend = [api |-> NoPend, worker |-> NoPend, cancel |-> NoPend]
  /\ existing_skus_dict = <<>>
  /\ total = 0
  /\ records_seen = 0
  /\ micro_batch = <<>>
  /\ total_processed = 0
  /\ total_errors = 0
  /\ all_errors = <<>>
  /\ revoked = FALSE
  /\ cancel_task_id = FALSE
  /\ ext = NoExt

\* the job row once CSVUploadAPIView.post has returned: metadata and task id stored
UploadedJob ==
  [NewJob EXCEPT !.s3_key = TRUE, !.file_size = Len(rows) + 1, !.celery_task_id = TRUE]

\* the state after CSVUploadAPIView.post has created the job
Init ==
  /\ InputInit(SmallRowValues, SmallStores, {TRUE})
  /\ IdleInit
  /\ job = NewJob
  /\ apc = "upload"
  /\ wpc = "none"

\* the state after CSVUploadAPIView.post has returned: the task is queued
InitImport ==
  /\ InputInit(RowValues, InitialStores, BOOLEAN)
  /\ IdleInit
  /\ job = UploadedJob
  /\ apc = "done"
  /\ wpc = "queued"

\* the job row once the count step has saved total_records
CountedJob ==
  [UploadedJob EXCEPT !.status = "processing", !.phase = "parsing", !.progress = 15,
                      !.total_records = Len(rows)]

\* the state after the task has saved total_records, before its third
\* cancellation checkpoint; no cancel request has arrived yet
InitStream ==
  /\ header = GoodHeader
  /\ rows \in SeqsUpTo(SmallRowValues, MaxStreamRows)
  /\ idsInline = TRUE
  /\ store \in SmallStores
  /\ nextId = FirstId
  /\ failures = 0
  /\ cancels = 0
  /\ run = 1
  /\ hist = [NoHist EXCEPT !.store0 = store, !.total_writes = 1]
  /\ cpc = "idle"
  /\ pend = [api |-> NoPend, worker |-> NoPend, cancel |-> NoPend]
  /\ existing_skus_dict = preload_existing_skus(store)
  /\ total = Len(rows)
  /\ records_seen = 0
  /\ micro_batch = <<>>
  /\ total_processed = 0
  /\ total_errors = 0
  /\ all_errors = <<>>
  /\ revoked = FALSE
  /\ cancel_task_id = FALSE
  /\ ext = NoExt
  /\ job = CountedJob
  /\ apc = "done"
  /\ wpc = "chk3"

\* job.save(update_fields=...) by caller c, and the history of total_records writes
Save(c) ==
  /\ job' = SaveFields(job, pend[c].obj, pend[c].fields)
  /\ pend' = [pend EXCEPT ![c] = NoPend]
  /\ hist' = [hist EXCEPT !.total_writes =
                IF "total_records" \in pend[c].fields THEN @ + 1 ELSE @]

\* ------------------------------------------------- CSVUploadAPIView.post
\* upload_file_to_s3: returns, or raises into the view's except block
UploadFile ==
  /\ apc = "upload"
  /\ \/ apc' = "meta" /\ UNCHANGED failures
     \/ failures < MaxFailures /\ failures' = failures + 1 /\ apc' = "fail"
  /\ UNCHANGED <<fileVars, ext, storeVars, job, workerVars, cancelVars, pend, run, hist>>

\* a caller's update_import_job_status call up to the save
ApiCall(args, update_fields, next) ==
  LET p == UisBegin(job, args, update_fields, next) IN
  /\ IF p = NoPend THEN apc' = next /\ UNCHANGED pend
     ELSE apc' = "save" /\ pend' = [pend EXCEPT !.api = p]
  /\ UNCHANGED <<fileVars, ext, storeVars, job, workerVars, cancelVars, failures, run, hist>>

\* update_import_job_status(status='pending', phase='uploading', s3_key, file_size, processed_records=0)
ApiMeta ==
  /\ apc = "meta"
  /\ ApiCall([status |-> "pending", phase |-> "uploading", s3_key |-> TRUE,
              file_size |-> Len(rows) + 1, processed_records |-> 0],
             {"status", "phase", "s3_key", "file_size", "processed_records", "last_updated_at"},
             "delay")

ApiSave ==
  /\ apc = "save"
  /\ Save("api")
  /\ apc' = pend.api.next
  /\ UNCHANGED <<fileVars, ext, storeVars, workerVars, cancelVars, failures, run>>

\* process_csv_import_task.delay(...): queues the task, or raises
ApiDelay ==
  /\ apc = "delay"
  /\ \/ apc' = "taskid" /\ wpc' = "queued" /\ UNCHANGED failures
     \/ failures < MaxFailures /\ failures' = failures + 1 /\ apc' = "fail" /\ UNCHANGED wpc
  /\ UNCHANGED <<fileVars, ext, storeVars, job, existing_skus_dict, total, streamVars,
                 cancelVars, pend, run, hist>>

\* update_import_job_status(celery_task_id=task.id)
ApiTaskId ==
  /\ apc = "taskid"
  /\ ApiCall([celery_task_id |-> TRUE], {"celery_task_id", "last_updated_at"}, "done")

\* the except block: update_import_job_status(status='failed', errors=[...])
ApiFail ==
  /\ apc = "fail"
  /\ ApiCall([status |-> "failed",
              errors |-> <<[error |-> "Failed to upload file or start import"]>>],
             {"status", "errors", "completed_at", "last_updated_at"}, "done")

\* ------------------------------------------------ process_csv_import_task
WorkerCall(args, update_fields, next) ==
  LET p == UisBegin(job, args, update_fields, next) IN
  /\ IF p = NoPend
       THEN wpc' = next /\ UNCHANGED pend /\ hist' = [hist EXCEPT !.suppressed = @ + 1]
       ELSE wpc' = "save" /\ pend' = [pend EXCEPT !.worker = p] /\ UNCHANGED hist
  /\ UNCHANGED <<fileVars, ext, storeVars, job, apc, existing_skus_dict, total, streamVars,
                 cancelVars, failures, run>>

\* the task starts: status='processing', phase='parsing', progress=15
TaskStart ==
  /\ wpc = "queued"
  /\ WorkerCall([status |-> "processing", phase |-> "parsing", progress |-> 15,
                 processed_records |-> 0, celery_task_id |-> TRUE],
                {"status", "phase", "progress", "processed_records", "celery_task_id",
                 "last_updated_at"},
                "chk1")

WorkerSave ==
  /\ wpc = "save"
  /\ Save("worker")
  /\ wpc' = pend.worker.next
  /\ UNCHANGED <<fileVars, ext, storeVars, apc, existing_skus_dict, total, streamVars,
                 cancelVars, failures, run>>

\* variant: the checkpoint reads the status and goes on whatever it reads
Checkpoint_GoesOn(at, next) ==
  /\ wpc = at
  /\ wpc' = next
  /\ hist' = [hist EXCEPT !.chk_cancel = @ \/ job.status = "cancelled"]
  /\ UNCHANGED <<fileVars, ext, storeVars, job, apc, existing_skus_dict, total, streamVars,
                 cancelVars, pend, failures, run>>

\* a cancellation checkpoint of the task: re-read the job, return if cancelled
Checkpoint(at, next) ==
  /\ wpc = at
  /\ wpc' = IF job.status = "cancelled" THEN "returned" ELSE next
  /\ hist' = [hist EXCEPT !.chk_cancel = @ \/ job.status = "cancelled"]
  /\ UNCHANGED <<fileVars, ext, storeVars, job, apc, existing_skus_dict, total, streamVars,
                 cancelVars, pend, failures, run>>

CheckBeforeProcessing == Checkpoint("chk1", "preload")
CheckAfterPreload == Checkpoint("chk2", "count")
CheckAfterCount == Checkpoint("chk3", "stream")
CheckFinal == Checkpoint("chk4", "complete")

Preload ==
  /\ wpc = "preload"
  /\ existing_skus_dict' = preload_existing_skus(store)
  /\ wpc' = "chk2"
  /\ UNCHANGED <<fileVars, ext, storeVars, job, apc, total, streamVars, cancelVars, pend,
                 failures, run, hist>>

\* variant: the count pass counts only the rows that pass validation
Count_ValidRows ==
  /\ wpc = "count"
  /\ IF validate_csv_headers(header)
       THEN /\ total' = Cardinality({i \in 1..Len(rows) :
                                      validate_csv_record(normalize_csv_record(header, rows[i])) = Nil})
            /\ wpc' = "settotal"
       ELSE wpc' = "fail" /\ UNCHANGED total
  /\ UNCHANGED <<fileVars, ext, storeVars, job, apc, existing_skus_dict, streamVars, cancelVars,
                 pend, failures, run, hist>>

\* count_csv_records: ValueError on a bad header, else the number of rows
Count ==
  /\ wpc = "count"
  /\ IF validate_csv_headers(header)
       THEN total' = Len(rows) /\ wpc' = "settotal"
       ELSE wpc' = "fail" /\ UNCHANGED total
  /\ UNCHANGED <<fileVars, ext, storeVars, job, apc, existing_skus_dict, streamVars, cancelVars,
                 pend, failures, run, hist>>

\* update_import_job_status(total_records=total_records)
SetTotal ==
  /\ wpc = "settotal"
  /\ WorkerCall([total_records |-> total], {"total_records", "last_updated_at"}, "chk3")

\* an unexpected exception (store or blob I/O) in the preload, the count
\* pass or the stream, caught at the task's except block
TaskRaise ==
  /\ wpc \in {"preload", "count", "stream"}
  /\ failures < MaxFailures
  /\ failures' = failures + 1
  /\ wpc' = "fail"
  /\ hist' = [hist EXCEPT !.task_raised = TRUE]
  /\ UNCHANGED <<fileVars, ext, storeVars, job, apc, existing_skus_dict, total, streamVars,
                 cancelVars, pend, run>>

\* variant: the failure entry is appended to the errors collected so far
TaskFail_AppendsError ==
  /\ wpc = "fail"
  /\ WorkerCall([status |-> "failed", progress |-> 0,
                 errors |-> Append(LastErrors(all_errors),
                                   [error |-> "exception", traceback |-> "traceback"])],
                {"status", "progress", "errors", "completed_at", "last_updated_at"},
                "raised")

\* variant: the except block re-raises without marking the job
TaskFail_ReraisesOnly ==
  /\ wpc = "fail"
  /\ wpc' = "raised"
  /\ UNCHANGED <<fileVars, ext, storeVars, job, apc, existing_skus_dict, total, streamVars,
                 cancelVars, pend, failures, run, hist>>

\* the except block: status='failed', progress=0, errors=[one entry]
TaskFail ==
  /\ wpc = "fail"
  /\ WorkerCall([status |-> "failed", progress |-> 0,
                 errors |-> <<[error |-> "exception", traceback |-> "traceback"]>>],
                {"status", "progress", "errors", "completed_at", "last_updated_at"},
                "raised")

\* the completion write
TaskComplete ==
  /\ wpc = "complete"
  /\ WorkerCall([status |-> "completed", phase |-> "completed", progress |-> 100,
                 processed_records |-> total_processed, total_records |-> total,
                 errors |-> LastErrors(all_errors)],
                {"status", "phase", "progress", "processed_records", "total_records",
                 "errors", "completed_at", "last_updated_at"},
                "returned")

\* ------------------------------------------------------ process_csv_stream
\* variant: the generator yields the data rows last to first
StreamRecordAt_Reversed(i) ==
  [record |-> normalize_csv_record(header, rows[Len(rows) + 1 - i]),
   row_number |-> Len(rows) + 2 - i]

\* variant: row numbers that count the first data row as row 1
StreamRecordAt_FromOne(i) == [record |-> normalize_csv_record(header, rows[i]), row_number |-> i]

\* the record stream_csv_from_s3 yields for data row i, with its row number
StreamRecordAt(i) == [record |-> normalize_csv_record(header, rows[i]), row_number |-> i + 1]

FieldOf(rec, k) == Strip(OrEmpty(RecGet(rec, k)))

\* one iteration of the for loop: periodic cancellation check, validation,
\* append to the micro-batch
StreamRecord ==
  /\ wpc = "stream"
  /\ records_seen < Len(rows)
  /\ records_seen' = records_seen + 1
  /\ LET y == StreamRecordAt(records_seen + 1)
         error_msg == validate_csv_record(y.record)
         seen == [hist EXCEPT !.records_after = IF job.status = "cancelled" THEN @ + 1 ELSE @]
     IN IF records_seen' % CheckEvery = 0 /\ job.status = "cancelled"
          THEN /\ wpc' = "after"
               /\ hist' = [seen EXCEPT !.cancel_seen = TRUE]
               /\ UNCHANGED <<micro_batch, total_errors, all_errors>>
        ELSE IF error_msg # Nil
          THEN /\ total_errors' = total_errors + 1
               /\ all_errors' = Append(all_errors,
                                       [row |-> y.row_number, sku |-> FieldOf(y.record, "Sku"),
                                        error |-> error_msg])
               /\ hist' = seen
               /\ UNCHANGED <<wpc, micro_batch>>
        ELSE /\ micro_batch' = Append(micro_batch,
                                      [sku |-> FieldOf(y.record, "Sku"),
                                       name |-> FieldOf(y.record, "Name"),
                                       description |-> FieldOf(y.record, "Description"),
                                       active |-> TRUE,
                                       row_number |-> y.row_number])
             /\ hist' = [seen EXCEPT !.batched = @ \cup {y.row_number}]
             /\ wpc' = IF Len(micro_batch') >= MicroBatchSize THEN "batch" ELSE "stream"
             /\ UNCHANGED <<total_errors, all_errors>>
  /\ UNCHANGED <<fileVars, ext, storeVars, job, apc, existing_skus_dict, total, total_processed,
                 cancelVars, pend, failures, run>>

FallbackOutcomes == {"ok", "db", "hook"}

\* two elements of one write list carry the same case-folded SKU
SharesSku(objs) ==
  \E i, j \in 1..Len(objs) : i < j /\ Lower(objs[i].sku) = Lower(objs[j].sku)

\* the caller's bookkeeping for the result r of a _process_micro_batch call
\* whose injected failures cost `cost`
BatchStep(r, cost, fb) ==
  /\ r.hit
  /\ r.raised \/ \A i \in DOMAIN fb : fb[i] = "ok"
  /\ failures + cost <= MaxFailures
  /\ failures' = failures + cost
  /\ store' = r.store
  /\ nextId' = r.nextId
  /\ existing_skus_dict' = r.cache
  /\ total_processed' = total_processed + r.processed
  /\ total_errors' = total_errors + Len(r.errors)
  /\ all_errors' = all_errors \o r.errors
  /\ hist' = [hist EXCEPT
                !.updates = @ + Len(r.upd),
                !.creates = @ + Len(r.cre),
                !.calls = @ + Len(r.calls),
                !.batches_after = IF job.status = "cancelled" THEN @ + 1 ELSE @,
                !.committed = @ + (IF r.raised
                                     THEN Cardinality({i \in DOMAIN fb : fb[i] # "db"})
                                     ELSE Len(micro_batch)),
                !.multi_write = @ \/ SharesSku(r.upd \o r.cre),
                !.applied = @ + (IF r.raised
                                   THEN Cardinality({i \in DOMAIN fb : fb[i] = "ok"})
                                   ELSE Len(micro_batch)),
                !.last = [batch |-> micro_batch, cache |-> existing_skus_dict,
                          store |-> store, upd |-> r.upd, cre |-> r.cre,
                          calls |-> r.calls, errors |-> r.errors,
                          fb |-> IF r.raised THEN fb ELSE <<>>, raised |-> r.raised,
                          processed |-> r.processed]]

\* a call of _process_micro_batch on the accumulator, with the failures the
\* store injects into it
CallMicroBatch ==
  \E fm \in FailPoints, fb \in [1..Len(micro_batch) -> FallbackOutcomes] :
    BatchStep(process_micro_batch(micro_batch, existing_skus_dict, store, nextId,
                                  idsInline, fm, fb),
              (IF fm = "none" THEN 0 ELSE 1) + Cardinality({i \in DOMAIN fb : fb[i] # "ok"}),
              fb)

\* variant: a store failure inside the micro-batch propagates to the task
ProcessBatch_Propagates ==
  /\ wpc = "batch"
  /\ CallMicroBatch
  /\ micro_batch' = <<>>
  /\ wpc' = IF failures' > failures THEN "fail" ELSE "progress"
  /\ UNCHANGED <<fileVars, ext, job, apc, total, records_seen, cancelVars, pend, run>>

\* the accumulator is full: process it and reset it
ProcessBatch ==
  /\ wpc = "batch"
  /\ CallMicroBatch
  /\ micro_batch' = <<>>
  /\ wpc' = "progress"
  /\ UNCHANGED <<fileVars, ext, job, apc, total, records_seen, cancelVars, pend, run>>

\* variant: the progress write leaves last_updated_at out of update_fields
StreamProgressWrite_NoTimestamp ==
  /\ wpc = "progress"
  /\ WorkerCall([phase |-> "processing", status |-> "processing",
                 progress |-> StreamProgress(total_processed, total),
                 processed_records |-> total_processed,
                 errors |-> LastErrors(all_errors)],
                {"phase", "status", "progress", "processed_records", "errors"},
                "stream")

\* the progress write after a micro-batch
StreamProgressWrite ==
  /\ wpc = "progress"
  /\ WorkerCall([phase |-> "processing", status |-> "processing",
                 progress |-> StreamProgress(total_processed, total),
                 processed_records |-> total_processed,
                 errors |-> LastErrors(all_errors)],
                {"phase", "status", "progress", "processed_records", "errors", "last_updated_at"},
                "stream")

\* the generator is exhausted
StreamExhausted ==
  /\ wpc = "stream"
  /\ records_seen = Len(rows)
  /\ wpc' = "after"
  /\ UNCHANGED <<fileVars, ext, storeVars, job, apc, existing_skus_dict, total, streamVars,
                 cancelVars, pend, failures, run, hist>>

\* variant: the records left in the accumulator after the loop are dropped
StreamTail_Dropped ==
  /\ wpc = "after"
  /\ wpc' = "chk4"
  /\ UNCHANGED <<fileVars, ext, storeVars, job, apc, existing_skus_dict, total, streamVars,
                 cancelVars, pend, failures, run, hist>>

\* after the loop: the remaining records of the accumulator are processed
StreamTail ==
  /\ wpc = "after"
  /\ IF micro_batch # <<>>
       THEN CallMicroBatch
       ELSE UNCHANGED <<storeVars, existing_skus_dict, total_processed, total_errors,
                        all_errors, failures, hist>>
  /\ wpc' = "chk4"
  /\ UNCHANGED <<fileVars, ext, job, apc, total, records_seen, micro_batch, cancelVars, pend, run>>

\* ------------------------------------------------ ImportJobCancelAPIView.post
\* variant: the view does not look at the status it read
CancelRead_NoTerminalCheck ==
  /\ cpc = "idle"
  /\ cancels < MaxCancels
  /\ cancels' = cancels + 1
  /\ cpc' = "revoke"
  /\ cancel_task_id' = job.celery_task_id
  /\ hist' = [hist EXCEPT !.rejected = @ \/ job.status \in Terminal]
  /\ UNCHANGED <<fileVars, ext, storeVars, job, apc, workerVars, revoked, pend, failures, run>>

\* the view reads the job and rejects a terminal one
CancelRead ==
  /\ cpc = "idle"
  /\ cancels < MaxCancels
  /\ cancels' = cancels + 1
  /\ IF job.status \in Terminal
       THEN UNCHANGED <<cpc, cancel_task_id>>
       ELSE cpc' = "revoke" /\ cancel_task_id' = job.celery_task_id
  /\ hist' = [hist EXCEPT !.rejected = @ \/ job.status \in Terminal]
  /\ UNCHANGED <<fileVars, ext, storeVars, job, apc, workerVars, revoked, pend, failures, run>>

\* app.control.revoke(job.celery_task_id, terminate=True) when the id is set
CancelRevoke ==
  /\ cpc = "revoke"
  /\ revoked' = (revoked \/ cancel_task_id)
  /\ cpc' = "update"
  /\ UNCHANGED <<fileVars, ext, storeVars, job, apc, workerVars, cancel_task_id, cancels, pend,
                 failures, run, hist>>

\* update_import_job_status(status='cancelled') up to the save
CancelUpdate ==
  /\ cpc = "update"
  /\ LET p == UisBegin(job, [status |-> "cancelled"],
                       {"status", "completed_at", "last_updated_at"}, "idle")
     IN IF p = NoPend THEN cpc' = "idle" /\ UNCHANGED pend
        ELSE cpc' = "save" /\ pend' = [pend EXCEPT !.cancel = p]
  /\ UNCHANGED <<fileVars, ext, storeVars, job, apc, workerVars, revoked, cancel_task_id, cancels,
                 failures, run, hist>>

CancelSave ==
  /\ cpc = "save"
  /\ Save("cancel")
  /\ cpc' = pend.cancel.next
  /\ UNCHANGED <<fileVars, ext, storeVars, apc, workerVars, revoked, cancel_task_id, cancels,
                 failures, run>>

\* the revoke reaches the worker: the task's process is terminated where it is
Terminate ==
  /\ revoked
  /\ wpc \notin {"none", "returned", "raised", "terminated"}
  /\ wpc' = "terminated"
  /\ pend' = [pend EXCEPT !.worker = NoPend]
  /\ UNCHANGED <<fileVars, ext, storeVars, job, apc, existing_skus_dict, total, streamVars,
                 cancelVars, failures, run, hist>>

\* ------------------------------------------------------------- re-import
\* the same file is uploaded again after its first job completed: a new job
\* and a new queued task, against the store the first run left
Rerun ==
  /\ run = 1
  /\ failures = 0
  /\ wpc = "returned"
  /\ apc = "done"
  /\ cpc = "idle"
  /\ job.status = "completed"
  /\ run' = 2
  /\ job' = UploadedJob
  /\ wpc' = "queued"
  /\ pend' = [api |-> NoPend, worker |-> NoPend, cancel |-> NoPend]
  /\ existing_skus_dict' = <<>>
  /\ total' = 0
  /\ records_seen' = 0
  /\ micro_batch' = <<>>
  /\ total_processed' = 0
  /\ total_errors' = 0
  /\ all_errors' = <<>>
  /\ revoked' = FALSE
  /\ cancel_task_id' = FALSE
  /\ hist' = [NoHist EXCEPT !.store0 = store, !.store1 = store]
  /\ UNCHANGED <<fileVars, ext, storeVars, apc, cpc, cancels, failures>>

\* ------------------------------------------- concurrent writers of the store
\* SKUs concurrent writers use: they collide with the file's SKU A1
ExtSkus == {"a1", "A1"}

\* create_product called by the products API: the lookup by sku__iexact
ApiCreateLookup ==
  /\ ext.pc = "idle"
  /\ ext.n < MaxExternal
  /\ \E sku \in ExtSkus :
       ext' = [ext EXCEPT !.pc = "write", !.sku = sku,
                          !.found = (get_product_by_sku(store, sku) # {})]
  /\ UNCHANGED <<fileVars, storeVars, job, apc, workerVars, cancelVars, pend, failures, run, hist>>

\* create_product called by the products API: existing.save() of the row it
\* found, else Product.objects.create, which the unique index may refuse
ApiCreateWrite ==
  /\ ext.pc = "write"
  /\ IF ext.found
       THEN /\ store' = {IF Lower(p.sku) = Lower(ext.sku)
                           THEN [p EXCEPT !.name = "Api", !.active = TRUE] ELSE p : p \in store}
            /\ UNCHANGED nextId
            /\ ext' = [ext EXCEPT !.pc = "idle", !.n = @ + 1]
       ELSE IF UniqueOk(store, ext.sku)
         THEN /\ store' = store \cup {Prod(nextId, ext.sku, "Api", "", TRUE)}
              /\ nextId' = nextId + 1
              /\ ext' = [ext EXCEPT !.pc = "idle", !.n = @ + 1]
         ELSE /\ UNCHANGED storeVars
              /\ ext' = [ext EXCEPT !.pc = "idle", !.n = @ + 1, !.rejected = TRUE]
  /\ UNCHANGED <<fileVars, job, apc, workerVars, cancelVars, pend, failures, run, hist>>

\* bulk_create of one product by the micro-batch of another import job,
\* whose key cache did not hold the SKU: the unique index may refuse it
OtherJobCreate ==
  /\ ext.pc = "idle"
  /\ ext.n < MaxExternal
  /\ \E sku \in ExtSkus :
       IF UniqueOk(store, sku)
         THEN /\ store' = store \cup {Prod(nextId, sku, "Other", "", TRUE)}
              /\ nextId' = nextId + 1
              /\ ext' = [ext EXCEPT !.n = @ + 1]
         ELSE /\ UNCHANGED storeVars
              /\ ext' = [ext EXCEPT !.n = @ + 1, !.rejected = TRUE]
  /\ UNCHANGED <<fileVars, job, apc, workerVars, cancelVars, pend, failures, run, hist>>

\* delete_product (one product, by id) or bulk_delete_products (every
\* product) called by the products API
ApiDelete ==
  /\ ext.pc = "idle"
  /\ ext.n < MaxExternal
  /\ \E gone \in {{p} : p \in store} \cup {store} :
       gone # {} /\ store' = store \ gone
  /\ ext' = [ext EXCEPT !.n = @ + 1]
  /\ UNCHANGED <<fileVars, nextId, job, apc, workerVars, cancelVars, pend, failures, run, hist>>

\* the state after CSVUploadAPIView.post has returned, for the specification
\* with concurrent writers of the store
InitStore ==
  /\ InputInit(SmallRowValues, SmallStores, BOOLEAN)
  /\ IdleInit
  /\ job = UploadedJob
  /\ apc = "done"
  /\ wpc = "queued"

\* ---------------------------------------------------------- specifications
ApiNext == UploadFile \/ ApiMeta \/ ApiSave \/ ApiDelay \/ ApiTaskId \/ ApiFail

TaskNext ==
  \/ TaskStart \/ WorkerSave
  \/ CheckBeforeProcessing \/ CheckAfterPreload \/ CheckAfterCount \/ CheckFinal
  \/ Preload \/ Count \/ SetTotal \/ TaskRaise \/ TaskFail \/ TaskComplete
  \/ StreamRecord \/ ProcessBatch \/ StreamProgressWrite \/ StreamExhausted \/ StreamTail

CancelNext == CancelRead \/ CancelRevoke \/ CancelUpdate \/ CancelSave \/ Terminate

Next == ApiNext \/ TaskNext \/ CancelNext

\* the job under concurrent cancel requests
Spec == Init /\ [][Next]_vars

\* the task from the moment it is queued, without cancel requests, followed by
\* a re-import of the file
NextImport == TaskNext \/ Rerun

SpecImport == InitImport /\ [][NextImport]_vars

\* the stream phase of the task under a concurrent cancel request
StreamNext ==
  \/ CheckAfterCount \/ StreamRecord \/ ProcessBatch \/ StreamProgressWrite \/ WorkerSave
  \/ StreamExhausted \/ StreamTail \/ CheckFinal \/ TaskComplete

NextCancel == StreamNext \/ CancelNext

SpecCancel == InitStream /\ [][NextCancel]_vars

\* the state after CSVUploadAPIView.post has returned, for the liveness
\* specification: a file of up to MaxLiveRows valid rows, the task queued
InitLive ==
  /\ header = GoodHeader
  /\ rows \in SeqsUpTo({<<"A1", "Widget", "x">>}, MaxLiveRows)
  /\ idsInline = TRUE
  /\ store = {}
  /\ nextId = FirstId
  /\ failures = 0
  /\ cancels = 0
  /\ run = 1
  /\ hist = NoHist
  /\ IdleInit
  /\ job = UploadedJob
  /\ apc = "done"
  /\ wpc = "queued"

\* scheduling: the worker runs a queued task step by step until it returns,
\* raises or is terminated; a cancel request being served runs to its
\* response.  Nothing obliges a cancel request to arrive or a revoke to
\* reach the worker
Fairness ==
  /\ WF_vars(TaskNext)
  /\ WF_vars(CancelRevoke \/ CancelUpdate \/ CancelSave)

NextLive == TaskNext \/ CancelNext

SpecLive == InitLive /\ [][NextLive]_vars /\ Fairness

\* the import task next to concurrent writers of the products table
StoreNext ==
  \/ ApiCreateLookup \/ ApiCreateWrite \/ OtherJobCreate
  \/ ApiDelete

NextStore == TaskNext \/ StoreNext

SpecStore == InitStore /\ [][NextStore]_vars

\* ================================================================== claims
\* the raw fields of data row i (columns of GoodHeader: sku, name, description)
RowSku(i) == Strip(rows[i][1])
RowName(i) == Strip(rows[i][2])
RowDescription(i) == Strip(rows[i][3])
RowValid(i) == RowSku(i) # "" /\ RowName(i) # ""
AllRowsValid == \A i \in 1..Len(rows) : RowValid(i)
TotalPersisted == hist.total_writes >= 1
TaskReturned == wpc = "returned"

\* C1: once the persisted status is completed, failed or cancelled it never
\* changes again, under every interleaving of the task's writes with a
\* cancel request (stated from the moment the task is queued)
C1_TerminalStatusIsFinal ==
  [][(wpc # "none" /\ job.status \in Terminal) => job'.status = job.status]_vars

\* C2: the persisted progress never decreases, across every write of the
\* upload API, the task (failure handler included) and process_csv_stream
C2_ProgressMonotone ==
  [][job'.progress >= job.progress]_vars

\* C3: the persisted progress is 100 only if the persisted status is completed
C3_FullProgressOnlyWhenCompleted ==
  job.progress = 100 => job.status = "completed"

\* C4: once total_records is persisted, processed_records <= total_records in
\* every persisted snapshot, fallback after a failed transaction included
C4_ProcessedAtMostTotal ==
  TotalPersisted => job.processed_records <= job.total_records

\* C5: total_records is written to the job row exactly once, by the count
\* step; no other write of the pipeline includes it
C5_TotalWrittenOnce ==
  /\ hist.total_writes <= 1
  /\ job.status = "completed" => hist.total_writes = 1

\* C6: once the count pass has set total_records its persisted value never
\* changes: progress writes leave it alone, later writes carry the same value
C6_TotalImmutable ==
  [][TotalPersisted => job'.total_records = job.total_records]_vars

\* C6 witness: a completed job whose total was set, that went through a
\* progress write and whose completion write wrote total_records again
C6_Witness ==
  /\ job.status = "completed"
  /\ hist.total_writes = 2
  /\ job.total_records >= MicroBatchSize
  /\ job.processed_records = job.total_records

\* C7: a file of N valid rows, with no store failure and no cancellation,
\* does not fail and ends completed with processed_records = total_records = N
C7_AllValidRowsCounted ==
  (failures = 0 /\ validate_csv_headers(header) /\ AllRowsValid) =>
     /\ wpc \notin {"fail", "raised"}
     /\ TaskReturned =>
          /\ job.status = "completed"
          /\ job.processed_records = Len(rows)
          /\ job.total_records = Len(rows)

\* C7 witness: a completed import of N valid rows, N not a multiple of the
\* micro-batch size, two of the rows sharing a case-folded SKU
C7_Witness ==
  /\ TaskReturned /\ failures = 0 /\ AllRowsValid
  /\ Len(rows) % MicroBatchSize # 0
  /\ Len(rows) > MicroBatchSize
  /\ \E i, j \in 1..Len(rows) : i < j /\ RowSku(i) # RowSku(j) /\ Lower(RowSku(i)) = Lower(RowSku(j))
  /\ job.status = "completed"

\* C8: every consumed row whose trimmed SKU or Name is empty has exactly one
\* entry in the error list, under its own row number (first data row = 2),
\* and was never put into a micro-batch
C8_InvalidRowsLoggedOnce ==
  \A i \in 1..records_seen :
    ~RowValid(i) =>
      /\ Cardinality({k \in 1..Len(all_errors) : all_errors[k].row = i + 1}) = 1
      /\ \A k \in 1..Len(all_errors) :
           all_errors[k].row = i + 1 =>
             /\ all_errors[k].sku = RowSku(i)
             /\ all_errors[k].error = (IF RowSku(i) = "" THEN "SKU is required"
                                       ELSE "Name is required")
      /\ (i + 1) \notin hist.batched
      /\ \A k \in 1..Len(micro_batch) : micro_batch[k].row_number # i + 1

\* C8 witness: the stream has consumed a row without SKU and a row without
\* Name, after a valid first row
C8_Witness ==
  /\ records_seen = 3
  /\ RowValid(1)
  /\ \E i, j \in 2..3 : RowSku(i) = "" /\ RowSku(j) # "" /\ RowName(j) = ""
  /\ Len(all_errors) = 2

\* no two valid rows of the file share a case-folded SKU
NoSharedSku ==
  \A i, j \in 1..Len(rows) :
    (i < j /\ RowValid(i) /\ RowValid(j)) => Lower(RowSku(i)) # Lower(RowSku(j))

\* the re-import has completed: what it wrote, and the store, are final
RerunCompleted == run = 2 /\ TaskReturned /\ job.status = "completed" /\ failures = 0

NoStoreWrites == hist.creates = 0 /\ hist.updates = 0 /\ hist.calls = 0

C10_CaseCollisionLastWins ==
  (run = 1 /\ TaskReturned /\ job.status = "completed" /\ failures = 0) =>
    \A i, j \in 1..Len(rows) :
      ( /\ i < j /\ RowValid(i) /\ RowValid(j)
        /\ RowSku(i) # RowSku(j) /\ Lower(RowSku(i)) = Lower(RowSku(j))
        /\ \A k \in (j+1)..Len(rows) : RowValid(k) => Lower(RowSku(k)) # Lower(RowSku(j))
        /\ get_product_by_sku(hist.store0, RowSku(j)) = {} )
      => /\ Cardinality(get_product_by_sku(store, RowSku(j))) = 1
         /\ \A p \in get_product_by_sku(store, RowSku(j)) :
              p.name = RowName(j) /\ p.description = RowDescription(j)

\* C11: once the in-stream check of process_csv_stream has read status
\* cancelled, no step writes to the store any more: no bulk update, no bulk
\* create, no fallback write (the partially filled micro-batch is not written)
C11_NoWriteAfterCancelSeen ==
  [][hist.cancel_seen =>
       /\ store' = store
       /\ hist'.updates = hist.updates
       /\ hist'.creates = hist.creates
       /\ hist'.calls = hist.calls]_vars

\* the task has ended (returned, or was killed by the revoke)
TaskEnded == wpc \in {"returned", "raised", "terminated"}

\* C12: for a job cancelled while its stream was still consuming records (no
\* store failure involved), the final persisted processed_records equals the
\* number of records of the micro-batches the task committed to the store
C12_CancelledCountMatchesCommitted ==
  (TaskEnded /\ job.status = "cancelled" /\ hist.records_after >= 1 /\ failures = 0) =>
     job.processed_records = hist.committed

\* every product a committed batch inserted is still in the store
NoRollback ==
  {p.id : p \in hist.store0} \cup (FirstId..(nextId - 1)) \subseteq {p.id : p \in store}

\* C13: while the persisted status is cancelled the stream consumes at most
\* one checking interval of records and processes at most one micro-batch,
\* and no committed batch is rolled back
C13_StopsWithinOneInterval ==
  /\ hist.records_after <= CheckEvery
  /\ hist.batches_after <= 1
  /\ NoRollback

\* the 3-row file of the example, imported into an empty store
ExampleFile ==
  /\ header = GoodHeader
  /\ rows = <<<<"A1", "Widget", "x">>, <<"a1", "Widget Pro", "y">>, <<"", "NoKey", "z">>>>
  /\ hist.store0 = {}
  /\ run = 1

\* C14: the completed import of the example file (no store failure) has
\* total_records = 3, processed_records = 2 and exactly one error entry, at
\* row 4, reporting the missing SKU
C14_ExampleFileCounts ==
  (ExampleFile /\ TaskReturned /\ failures = 0) =>
     /\ job.status = "completed"
     /\ job.total_records = 3
     /\ job.processed_records = 2
     /\ job.errors = <<[row |-> 4, sku |-> "", error |-> "SKU is required"]>>

\* C14 witness: the example file's import has completed
C14_Witness ==
  /\ ExampleFile /\ TaskReturned /\ failures = 0
  /\ job.status = "completed"
  /\ Cardinality(store) = 1

\* C15: with a valid header and no exception outside the batch engine, no
\* invalid row and no store failure inside a micro-batch (bulk write failure,
\* uniqueness violation at write time, failing fallback write) takes the task
\* to its failure handler: the stream goes on and the task returns completed
C15_BatchErrorsNeverFailJob ==
  (validate_csv_headers(header) /\ ~hist.task_raised) =>
     /\ wpc \notin {"fail", "raised"}
     /\ job.status # "failed"
     /\ TaskReturned => job.status = "completed"

\* C15 witness: a completed job one of whose micro-batches fell back to
\* individual writes, one of which failed and was logged
C15_Witness ==
  /\ TaskReturned /\ job.status = "completed" /\ ~hist.task_raised
  /\ hist.calls >= 1
  /\ \E k \in 1..Len(all_errors) : all_errors[k].error = "write failed"

\* one of the normalized columns Sku, Name, Description is not in the header
LacksRequiredColumn ==
  \E c \in {"Sku", "Name", "Description"} :
    \A i \in 1..Len(header) : Title(Strip(header[i])) # c

\* C16: a file whose header lacks one of Sku, Name, Description (or has no
\* header) never reaches the stream: no record is handed to the batch engine,
\* no product is created or updated, and the task ends with status failed
C16_BadHeaderFailsWithoutWrites ==
  LacksRequiredColumn =>
     /\ wpc \notin {"settotal", "chk3", "stream", "batch", "progress", "after", "chk4",
                     "complete", "returned"}
     /\ hist.batched = {}
     /\ records_seen = 0
     /\ NoStoreWrites
     /\ store = hist.store0
     /\ wpc = "raised" => job.status = "failed"

\* C16 witness: the task of a file without Description column has ended in
\* its failure handler, the exception coming from the header check
C16_Witness ==
  /\ header = <<"sku", "name">>
  /\ Len(rows) = 1
  /\ ~hist.task_raised
  /\ wpc = "raised"
  /\ job.status = "failed"

\* C17: no micro-batch lists two write attempts (elements of
\* products_to_update or products_to_create) for one case-folded SKU
C17_OneWritePerSkuPerBatch ==
  ~hist.multi_write

\* C18: the store never holds two products with the same lower-cased SKU,
\* whatever the micro-batches (bulk and fallback paths), other jobs' inserts
\* and API create_product calls do
C18_OneProductPerFoldedSku ==
  \A p, q \in store : Lower(p.sku) = Lower(q.sku) => p = q

\* C18 witness: the unique index has refused a concurrent writer's insert of
\* a SKU the import had created under another case
C18_Witness ==
  /\ ext.rejected
  /\ hist.creates >= 1
  /\ \E p \in store : Lower(p.sku) = Lower(ext.sku) /\ p.sku # ext.sku

\* C19: a call of update_import_job_status that reads status cancelled
\* prepares no save and changes no field of the job row: in a state whose
\* persisted status is cancelled no caller gets a pending save, and the row
\* changes only by a save prepared from an earlier read
C19_CancelledReadSuppressesWrite ==
  [][job.status = "cancelled" =>
       /\ \A c \in DOMAIN pend : pend'[c] # pend[c] => pend'[c] = NoPend
       /\ job' # job => \E c \in DOMAIN pend : pend[c] # NoPend /\ pend'[c] = NoPend]_vars

\* C19 witness: the stream wrote its only micro-batch, the cancel request was
\* saved after the final checkpoint, and the completion write was suppressed
C19_Witness ==
  /\ Len(rows) = 1
  /\ hist.committed = 1
  /\ hist.total_writes = 1
  /\ hist.suppressed = 1
  /\ wpc = "returned"
  /\ job.status = "cancelled"
  /\ job.progress = 15
  /\ job.processed_records = 0

\* the most recent ErrCap entries of a list, in order (all when it is shorter)
MostRecent(errs) ==
  [k \in 1..Min(Len(errs), ErrCap) |-> errs[Len(errs) - Min(Len(errs), ErrCap) + k]]

\* C20 (as claimed): the persisted error list never exceeds the cap, and
\* whenever the stream has accumulated more errors than the cap the persisted
\* list is exactly the most recent ones
C20_ErrorsCappedAlways ==
  /\ Len(job.errors) <= ErrCap
  /\ Len(all_errors) > ErrCap => job.errors = MostRecent(all_errors)

\* C20 (amended): the persisted error list never exceeds the cap; every
\* progress write and the completion write carry exactly the most recent
\* accumulated errors, and so does the list of a completed job
C20_ErrorsCappedAtWrites ==
  /\ Len(job.errors) <= ErrCap
  /\ (pend.worker # NoPend /\ "errors" \in pend.worker.fields
        /\ pend.worker.obj.status \in {"processing", "completed"}) =>
       pend.worker.obj.errors = MostRecent(all_errors)
  /\ (TaskReturned /\ job.status = "completed") => job.errors = MostRecent(all_errors)

\* C20 witness: a completed job whose stream accumulated more errors than
\* the cap; the persisted list holds the last ones
C20_Witness ==
  /\ TaskReturned /\ job.status = "completed"
  /\ Len(all_errors) > ErrCap
  /\ Len(job.errors) = ErrCap
  /\ job.errors[ErrCap] = all_errors[Len(all_errors)]
  /\ job.errors[1] # all_errors[1]

\* the callers of update_import_job_status that can hold a save in flight
Callers == {"api", "worker", "cancel"}

\* C21: a persisted terminal status always comes with completed_at, and every
\* save in flight whose object carries a terminal status it is about to write
\* also writes completed_at, set, in the same save
C21_TerminalHasCompletedAt ==
  /\ job.status \in Terminal => job.completed_at
  /\ \A c \in Callers :
        (pend[c] # NoPend /\ "status" \in pend[c].fields /\ pend[c].obj.status \in Terminal)
          => ("completed_at" \in pend[c].fields /\ pend[c].obj.completed_at)

\* the cancel view's write has made a job terminal whose task was already running
C21_Witness ==
  /\ job.status = "cancelled"
  /\ job.completed_at
  /\ job.phase = "parsing"
  /\ pend.cancel = NoPend
  /\ cancels = 1

\* the progress range of each phase, as update_import_job_status documents it
PhaseRange(phase) ==
  CASE phase = "uploading" -> 0..10
    [] phase = "parsing" -> 10..20
    [] phase = "processing" -> 20..100
    [] OTHER -> {100}

\* C22: the persisted progress lies in the range of the persisted phase, in
\* every state, failed and cancelled jobs included
C22_ProgressInPhaseRange == job.progress \in PhaseRange(job.phase)

PhaseRank(phase) ==
  CASE phase = "uploading" -> 0
    [] phase = "parsing" -> 1
    [] phase = "processing" -> 2
    [] OTHER -> 3

\* C23: no step replaces the persisted phase of a job by an earlier one
C23_PhaseMovesForward ==
  [][PhaseRank(job'.phase) >= PhaseRank(job.phase)]_vars

\* a job has gone through all four phases: uploading at creation, parsing at
\* the task's start, processing at a progress write, completed at the end
C23_Witness ==
  /\ job.phase = "completed"
  /\ job.status = "completed"
  /\ apc = "done"
  /\ hist.last.batch # <<>>
  /\ Len(rows) > MicroBatchSize

\* C24: when the job is completed, the persisted processed_records is the
\* number of records the pipeline wrote over the whole file (records of
\* committed micro-batches and records whose individual write returned, the
\* last partial micro-batch included), and the persisted error list is the
\* tail of the full error list
C24_CompletedCountsAreFinal ==
  (TaskReturned /\ job.status = "completed")
    => /\ job.processed_records = hist.applied
       /\ job.errors = MostRecent(all_errors)

\* C25: once an exception has reached the task's except block and the task
\* has re-raised, the job is persisted as failed with an error list of
\* exactly one entry, the message with its traceback; and the task takes no
\* further step: it neither retries nor resumes, so the job row and the
\* store stay as the failure left them
C25_FailureIsFinalWithOneError ==
  /\ [](wpc = "raised"
          => /\ job.status = "failed"
             /\ Len(job.errors) = 1
             /\ DOMAIN job.errors[1] = {"error", "traceback"})
  /\ [][wpc = "raised" => (wpc' = "raised" /\ job' = job /\ store' = store)]_vars

\* the stream had collected row errors and written products before the
\* exception reached the task
C25_Witness ==
  /\ wpc = "raised"
  /\ hist.task_raised
  /\ all_errors # <<>>
  /\ hist.applied > 0
  /\ job.status = "failed"
  /\ Len(job.errors) = 1

\* C26: once one of the task's four checkpoints has read status cancelled
\* the task has returned and stays returned: no later step runs, so the
\* store is not written again, the task prepares no further save of the job,
\* and the persisted status never becomes completed or failed
C26_CheckpointCancelReturns ==
  /\ [](hist.chk_cancel => wpc = "returned")
  /\ [][hist.chk_cancel
          => /\ wpc' = "returned"
             /\ store' = store
             /\ pend'.worker = NoPend
             /\ job'.status \notin {"completed", "failed"}]_vars

\* the final checkpoint, after a stream that wrote products, read cancelled
C26_Witness ==
  /\ hist.chk_cancel
  /\ wpc = "returned"
  /\ records_seen = Len(rows)
  /\ store # {}
  /\ job.status = "cancelled"

\* what a micro-batch whose transaction failed must leave: no product of
\* storeAfter differs from storeBefore unless an individual write of a record
\* with its case-folded SKU went through; create_product was called once per
\* record, in order; and a record has one error entry (its row number and
\* SKU) when its call raised, none when it returned
RolledBackAndRetried(batch, storeBefore, fb, calls, errors, storeAfter) ==
  /\ \A p \in storeAfter :
        (\A i \in 1..Len(batch) : fb[i] = "db" \/ Lower(batch[i].sku) # Lower(p.sku))
          => p \in storeBefore
  /\ calls = [i \in 1..Len(batch) |-> batch[i].row_number]
  /\ \A i \in 1..Len(batch) :
        Cardinality({k \in 1..Len(errors) :
                       errors[k].row = batch[i].row_number /\ errors[k].sku = batch[i].sku})
          = IF fb[i] = "ok" THEN 0 ELSE 1
  /\ Len(errors) = Cardinality({i \in 1..Len(batch) : fb[i] # "ok"})

\* the same for the result r of a call in which the store injects the failures fb
RaisedBatchRetried(r, fb) ==
  (r.hit /\ r.raised)
    => RolledBackAndRetried(micro_batch, store, fb, r.calls, r.errors, r.store)

\* C27: when the transaction of a micro-batch fails, its bulk writes are
\* rolled back as a whole, every record of the batch is applied through
\* create_product, and each record whose individual write fails yields
\* exactly one error entry with its row number and SKU: for the micro-batch
\* just processed, and for every failure the store can inject into the
\* micro-batch about to be processed
C27_FailedBatchRolledBackAndRetried ==
  /\ (wpc \in {"progress", "chk4"} /\ hist.last.raised)
       => RolledBackAndRetried(hist.last.batch, hist.last.store, hist.last.fb,
                               hist.last.calls, hist.last.errors, store)
  /\ (wpc \in {"batch", "after"} /\ micro_batch # <<>>)
       => \A fm \in FailPoints, fb \in [1..Len(micro_batch) -> FallbackOutcomes] :
            RaisedBatchRetried(process_micro_batch(micro_batch, existing_skus_dict, store,
                                                   nextId, idsInline, fm, fb), fb)

\* a bulk create has failed and an individual write of the fallback failed too
C27_Witness ==
  /\ wpc = "chk4"
  /\ hist.last.raised
  /\ hist.last.cre # <<>>
  /\ \E i \in DOMAIN hist.last.fb : hist.last.fb[i] = "db"
  /\ Len(hist.last.errors) = 1

\* C28: after a micro-batch whose bulk create was committed, every key the
\* batch created has its id in the key cache, whether the backend returned
\* the ids inline or the follow-up lookup fetched them
C28_CreatedKeysHaveIds ==
  (wpc \in {"progress", "chk4"} /\ ~hist.last.raised)
    => \A i \in 1..Len(hist.last.cre) :
         /\ Lower(hist.last.cre[i].sku) \in DOMAIN existing_skus_dict
         /\ existing_skus_dict[Lower(hist.last.cre[i].sku)].id # NoId

\* the cache held the case-folded SKU of record i with an assigned id when
\* the batch was partitioned
CachedRow(batch, cache, i) ==
  /\ Lower(batch[i].sku) \in DOMAIN cache
  /\ cache[Lower(batch[i].sku)].id # NoId

\* record i is the only record of the batch with its case-folded SKU
SoleRow(batch, i) ==
  \A j \in 1..Len(batch) : j # i => Lower(batch[j].sku) # Lower(batch[i].sku)

\* the records of the batch before record i with its case-folded SKU
EarlierRows(batch, i) ==
  {j \in 1..(i - 1) : Lower(batch[j].sku) = Lower(batch[i].sku)}

\* the cached snapshot record i of a cached SKU is compared with: the values
\* of the nearest earlier record of the batch with its SKU, else the cache
\* entry the batch started with
SnapshotFor(batch, cache, i) ==
  IF EarlierRows(batch, i) = {}
    THEN cache[Lower(batch[i].sku)]
    ELSE batch[CHOOSE j \in EarlierRows(batch, i) : \A j2 \in EarlierRows(batch, i) : j2 <= j]

SameAsSnapshot(pd, snap) ==
  pd.name = snap.name /\ pd.description = snap.description /\ pd.active = snap.active

\* the records of the batch with the case-folded SKU k that differ from
\* their snapshot
ChangedRows(batch, cache, k) ==
  {i \in 1..Len(batch) :
     Lower(batch[i].sku) = k /\ ~SameAsSnapshot(batch[i], SnapshotFor(batch, cache, i))}

\* the positions of the update list that carry the id
UpdatesOf(upd, id) == {m \in 1..Len(upd) : upd[m].id = id}

\* C29: in the last micro-batch, the rows of a case-folded SKU that was
\* cached with an id add nothing to the create list; those equal to their
\* cached snapshot in name, description and active flag add nothing to the
\* update list, and each row that differs adds one update, under the cached
\* id and with the row's values, in row order.  Once the batch is committed,
\* the product of an unchanged row is as it was and the product of a changed
\* row carries the row's values (for a row that is the only one of its SKU
\* in the batch)
C29_DiffSkipAndUpdate ==
  \A i \in 1..Len(hist.last.batch) :
    CachedRow(hist.last.batch, hist.last.cache, i) =>
      LET pd == hist.last.batch[i]
          id == hist.last.cache[Lower(pd.sku)].id
          changed == ChangedRows(hist.last.batch, hist.last.cache, Lower(pd.sku))
          ups == UpdatesOf(hist.last.upd, id)
          committed == wpc \in {"progress", "chk4"} /\ ~hist.last.raised
      IN /\ \A k \in 1..Len(hist.last.cre) : Lower(hist.last.cre[k].sku) # Lower(pd.sku)
         /\ Cardinality(ups) = Cardinality(changed)
         /\ i \in changed
              => \E m \in ups :
                   /\ Cardinality({m2 \in ups : m2 <= m}) = Cardinality({i2 \in changed : i2 <= i})
                   /\ SameAsSnapshot(pd, hist.last.upd[m])
         /\ (committed /\ SoleRow(hist.last.batch, i))
              => IF i \in changed
                   THEN \A p \in store : p.id = id => SameAsSnapshot(pd, p)
                   ELSE \A p \in hist.last.store : p.id = id => p \in store

\* a committed micro-batch held one unchanged row and one changed row of
\* two products that were in the store before the import
C29_Witness ==
  /\ wpc = "progress"
  /\ ~hist.last.raised
  /\ Len(hist.last.batch) = 2
  /\ \A i \in 1..2 : CachedRow(hist.last.batch, hist.last.cache, i)
                         /\ SoleRow(hist.last.batch, i)
  /\ \E i \in 1..2 : SameAsSnapshot(hist.last.batch[i],
                                     hist.last.cache[Lower(hist.last.batch[i].sku)])
  /\ Len(hist.last.upd) = 1
  /\ store # hist.last.store

\* the positions of the create list that carry the case-folded SKU k
CreatesOf(cre, k) == {m \in 1..Len(cre) : Lower(cre[m].sku) = k}

\* for the result part of the partition loop over batch, started with cache:
\* every case-folded SKU of the batch that the cache lacked is in the create
\* list once, with the values of its first row, is in no update, and is
\* reserved in the cache without an id
AbsentKeysCreatedOnce(batch, cache, part) ==
  \A i \in 1..Len(batch) :
    Lower(batch[i].sku) \notin DOMAIN cache =>
      /\ Cardinality(CreatesOf(part.cre, Lower(batch[i].sku))) = 1
      /\ EarlierRows(batch, i) = {}
           => \A m \in CreatesOf(part.cre, Lower(batch[i].sku)) :
                part.cre[m].sku = batch[i].sku /\ SameAsSnapshot(batch[i], part.cre[m])
      /\ \A m \in 1..Len(part.upd) : Lower(part.upd[m].sku) # Lower(batch[i].sku)
      /\ Lower(batch[i].sku) \in DOMAIN part.cache
      /\ part.cache[Lower(batch[i].sku)].id = NoId

\* C30: in the last micro-batch, a case-folded SKU that the key cache lacked
\* was reserved in the cache and put on the create list exactly once,
\* however many rows of the batch carry it; the create list handed to
\* bulk_create is that list, and after the batch the key is still cached
C30_AbsentSkuCreatedOnce ==
  /\ AbsentKeysCreatedOnce(hist.last.batch, hist.last.cache,
                           Partition(hist.last.batch, 1,
                                     [cache |-> hist.last.cache, upd |-> <<>>,
                                      cre |-> <<>>, inCre |-> {}]))
  /\ \A i \in 1..Len(hist.last.batch) :
        Lower(hist.last.batch[i].sku) \notin DOMAIN hist.last.cache =>
          /\ hist.last.cre # <<>>
               => Cardinality(CreatesOf(hist.last.cre, Lower(hist.last.batch[i].sku))) = 1
          /\ wpc \in {"progress", "chk4"}
               => Lower(hist.last.batch[i].sku) \in DOMAIN existing_skus_dict

\* a committed micro-batch held two rows whose SKUs differ only in case and
\* were not in the cache: one product was created
C30_Witness ==
  /\ wpc = "progress"
  /\ ~hist.last.raised
  /\ Len(hist.last.batch) = 2
  /\ hist.last.batch[1].sku # hist.last.batch[2].sku
  /\ Lower(hist.last.batch[1].sku) = Lower(hist.last.batch[2].sku)
  /\ Lower(hist.last.batch[1].sku) \notin DOMAIN hist.last.cache
  /\ Len(hist.last.cre) = 1
  /\ Cardinality(store) = Cardinality(hist.last.store) + 1

\* C31: every product that was in the store when the job was created is
\* still there under the same id with the same SKU, letter case included,
\* whatever the import wrote through bulk_update or through create_product
C31_StoredSkuUnchanged ==
  \A p \in hist.store0 : \E q \in store : q.id = p.id /\ q.sku = p.sku

\* rows spelling the SKU of an existing product in another letter case have
\* changed that product both through bulk_update and through the fallback
C31_Witness ==
  /\ TaskReturned
  /\ hist.updates > 0
  /\ hist.calls > 0
  /\ \E p \in hist.store0, q \in store :
        /\ q.id = p.id
        /\ q.name # p.name
        /\ \E i \in 1..Len(rows) : RowSku(i) # p.sku /\ Lower(RowSku(i)) = Lower(p.sku)

\* the micro-batch the valid data row i falls into when nothing stops the
\* stream: valid rows fill the accumulator in file order
BatchOf(i) == (Cardinality({j \in 1..i : RowValid(j)}) - 1) \div MicroBatchSize

\* a step in which _process_micro_batch runs on the accumulator
BatchProcessed ==
  \/ wpc = "batch" /\ wpc' = "progress"
  \/ wpc = "after" /\ micro_batch # <<>> /\ wpc' = "chk4"

\* the row numbers handed to the engine before the current accumulator
EarlierBatched == hist.batched \ {micro_batch[a].row_number : a \in 1..Len(micro_batch)}

\* in this step the engine issues a write for record a of the accumulator,
\* whose case-folded SKU an earlier micro-batch has handled and no other
\* record of the accumulator carries: an update or create of a transaction
\* that commits, or a fallback call that reaches the store
LaterRowWritten(a) ==
  /\ SoleRow(micro_batch, a)
  /\ \E r \in EarlierBatched : Lower(RowSku(r - 1)) = Lower(micro_batch[a].sku)
  /\ IF hist'.last.raised
       THEN hist'.last.fb[a] # "db"
       ELSE \E m \in 1..Len(hist'.last.upd \o hist'.last.cre) :
              Lower((hist'.last.upd \o hist'.last.cre)[m].sku) = Lower(micro_batch[a].sku)

\* the store rows that the write issued for record a addresses carry the
\* record's name after the step: bulk_update addresses the row whose id the
\* updated object holds, bulk_create and the fallback's update_or_create the
\* row with the record's case-folded SKU
LaterWriteOnTop(a) ==
  IF hist'.last.raised
    THEN \E p \in store' : /\ Lower(p.sku) = Lower(micro_batch[a].sku)
                           /\ p.name = micro_batch[a].name
    ELSE /\ \A m \in 1..Len(hist'.last.upd) :
              Lower(hist'.last.upd[m].sku) = Lower(micro_batch[a].sku)
                => \A p \in store' : p.id = hist'.last.upd[m].id
                                        => p.name = micro_batch[a].name
         /\ \A m \in 1..Len(hist'.last.cre) :
              Lower(hist'.last.cre[m].sku) = Lower(micro_batch[a].sku)
                => \E p \in store' : /\ Lower(p.sku) = Lower(micro_batch[a].sku)
                                      /\ p.name = micro_batch[a].name

\* C32: records reach the store in file order.  Each micro-batch handed to
\* the engine holds its records in increasing row order, all after the rows
\* of the micro-batches processed before it; and a write issued for a row
\* whose case-folded SKU an earlier micro-batch has handled lands on top of
\* the earlier one: after the step the rows it addresses carry the later
\* row's name
C32_WritesInFileOrder ==
  [][BatchProcessed =>
       /\ \A a, b \in 1..Len(micro_batch) :
             a < b => micro_batch[a].row_number < micro_batch[b].row_number
       /\ \A r \in EarlierBatched : \A a \in 1..Len(micro_batch) : r < micro_batch[a].row_number
       /\ \A a \in 1..Len(micro_batch) : LaterRowWritten(a) => LaterWriteOnTop(a)]_vars

\* the valid data row i repeats a case-folded SKU of earlier rows, all of
\* which lie in earlier micro-batches, and no later row carries that SKU
LastOfSkuAcrossBatches(i) ==
  /\ RowValid(i)
  /\ \E j \in 1..(i - 1) : RowValid(j) /\ Lower(RowSku(j)) = Lower(RowSku(i))
  /\ \A j \in 1..Len(rows) :
        (j # i /\ RowValid(j) /\ Lower(RowSku(j)) = Lower(RowSku(i)))
          => (j < i /\ BatchOf(j) < BatchOf(i))

\* a completed import whose third row rewrote, from the second micro-batch,
\* the product its first row had written
C32_Witness ==
  /\ TaskReturned
  /\ job.status = "completed"
  /\ Len(rows) = 3
  /\ LastOfSkuAcrossBatches(3)
  /\ Lower(RowSku(1)) = Lower(RowSku(3))
  /\ RowName(1) # RowName(3)
  /\ all_errors = <<>>
  /\ \E p \in store : Lower(p.sku) = Lower(RowSku(3)) /\ p.name = RowName(3)

\* the task's save in flight is a progress write of process_csv_stream
ProgressWriteInFlight == wpc = "save" /\ pend.worker.next = "stream"

\* C33: while the stream is consumed the task writes the job row only right
\* after a full micro-batch has been processed.  A step that consumes a
\* record neither writes the row nor prepares a write; a progress write in
\* flight follows a micro-batch of MicroBatchSize records with the
\* accumulator reset; and each such write lists last_updated_at among the
\* fields it saves (the field is auto_now, so saving it refreshes it)
C33_ProgressWritesAtBatchBoundaries ==
  /\ [](ProgressWriteInFlight
          => /\ Len(hist.last.batch) = MicroBatchSize
             /\ micro_batch = <<>>
             /\ "last_updated_at" \in pend.worker.fields)
  /\ [][records_seen' # records_seen => (job' = job /\ pend' = pend)]_vars
  /\ [][(wpc \in {"stream", "batch", "progress", "after"} /\ job' # job)
          => cpc = "save"]_vars

\* a progress write has been saved after the first full micro-batch and the
\* stream has gone on to the next record
C33_Witness ==
  /\ wpc = "stream"
  /\ records_seen = MicroBatchSize + 1
  /\ job.processed_records = MicroBatchSize
  /\ job.phase = "processing"
  /\ hist.last.batch # <<>>

\* C34: the pair (processed, errors) the last _process_micro_batch call
\* returned counts each record of its micro-batch once:
\* processed + len(errors) = len(micro_batch)
C34_BatchCountsEachRecordOnce ==
  hist.last.processed + Len(hist.last.errors) = Len(hist.last.batch)

\* C35: when the job is persisted as completed, the counts process_csv_stream
\* returned account for every row of the file once:
\* processed_count + error_count = total_records, the number of data rows
C35_CompletedAccountsForEveryRow ==
  (TaskReturned /\ job.status = "completed")
    => /\ total_processed + total_errors = job.total_records
       /\ job.total_records = Len(rows)

\* the cache entry e agrees with the store on the case-folded SKU k: it has
\* an id exactly when a product with that SKU exists, and then its id, name,
\* description and active are the stored ones
AgreesWithStore(k, e) ==
  /\ e.id # NoId <=> \E p \in store : Lower(p.sku) = k
  /\ \A p \in store :
        Lower(p.sku) = k
          => (p.id = e.id /\ p.name = e.name /\ p.description = e.description
                /\ p.active = e.active)

\* C36: between micro-batches, the job being the only writer of the store,
\* the key-cache entry of every key the last micro-batch touched agrees with
\* the store, also after a micro-batch that was rolled back and retried
\* record by record
C36_CacheAgreesWithStore ==
  wpc \in {"progress", "chk4"} =>
    \A i \in 1..Len(hist.last.batch) :
      /\ Lower(hist.last.batch[i].sku) \in DOMAIN existing_skus_dict
      /\ AgreesWithStore(Lower(hist.last.batch[i].sku),
                         existing_skus_dict[Lower(hist.last.batch[i].sku)])

\* every fallback call of the accumulator's records succeeds
AllOk == [i \in 1..Len(micro_batch) |-> "ok"]

\* bulk is the result of a call whose transaction commits, retried the
\* result of the same call when the transaction fails at commit and every
\* fallback write succeeds: both leave the same store
FallbackMatchesBulk(bulk, retried) ==
  (~bulk.raised /\ retried.raised) => retried.store = bulk.store

\* C37: for the micro-batch about to be processed, the store the per-record
\* fallback leaves when every individual write succeeds equals the store the
\* bulk path leaves when its transaction commits
C37_FallbackEquivalentToBulk ==
  (wpc \in {"batch", "after"} /\ micro_batch # <<>>)
    => FallbackMatchesBulk(
         process_micro_batch(micro_batch, existing_skus_dict, store, nextId, idsInline,
                             "none", AllOk),
         process_micro_batch(micro_batch, existing_skus_dict, store, nextId, idsInline,
                             "commit", AllOk))

\* C38: when a micro-batch has been processed next to other clients that
\* create and delete products, every record it counted as processed (each
\* record of a committed transaction, each record whose fallback call
\* returned) has a product with its case-folded SKU in the store
C38_ProcessedRecordsAreStored ==
  [][BatchProcessed =>
       \A a \in 1..Len(micro_batch) :
         (hist'.last.raised => hist'.last.fb[a] = "ok")
           => \E p \in store' : Lower(p.sku) = Lower(micro_batch[a].sku)]_vars

\* C39: under fair scheduling every job whose task was queued eventually
\* has a terminal persisted status, whatever cancel requests and failures
\* occur on the way; and once the task has run to its end, by returning or
\* by raising, the persisted status is terminal and stays terminal
C39_QueuedJobBecomesTerminal ==
  /\ (wpc = "queued") ~> (job.status \in Terminal)
  /\ [](wpc \in {"returned", "raised"} => job.status \in Terminal)

\* a cancel request and a store failure both occurred: the task raised, its
\* failure write was suppressed, and the job is cancelled
C39_Witness ==
  /\ wpc = "raised"
  /\ hist.task_raised
  /\ cancels = 1
  /\ cpc = "idle"
  /\ job.status = "cancelled"

\* C40: a cancel request that reads a terminal status ends at once, changes
\* no field of the job row, prepares no save and revokes no task; a request
\* that reads pending or processing goes on to the revoke, and when it ends
\* the persisted status is cancelled
C40_CancelRejectedOrCancels ==
  /\ [][(cpc = "idle" /\ cancels' # cancels)
          => IF job.status \in Terminal
               THEN cpc' = "idle" /\ job' = job /\ pend' = pend /\ revoked' = revoked
               ELSE cpc' = "revoke"]_vars
  /\ [][(cpc \in {"revoke", "update", "save"} /\ cpc' = "idle")
          => job'.status = "cancelled"]_vars

\* a cancel request found the job completed and was rejected: the job is
\* still completed and no revoke was sent
C40_Witness ==
  /\ hist.rejected
  /\ cancels = 1
  /\ cpc = "idle"
  /\ job.status = "completed"
  /\ ~revoked
====
